---- MODULE Spec2Model ----
(***************************************************************************)
(* Model of dataapp_supervivencia.py: the data normalizer (cargar_datos,   *)
(* procesar_datos, crear_datos_ejemplo), the risk scorer                   *)
(* (calcular_score_riesgo) and the part of mostrar_predictor and main that *)
(* decides what is computed.                                               *)
(*                                                                         *)
(* Numbers.  Slider values with step 0.1 (bmi, ct_blood, temperatura,      *)
(* saturacion_oxigeno) are held in tenths: 18.5 is 185.  Score points are  *)
(* held in thousandths: 3.0 is 3000, 0.8 is 800, so round(score, 2) is a   *)
(* rounding to a multiple of 10.  probabilidad = score / 15 is held as a   *)
(* multiple of 1/15000: the number stored is the score in thousandths, and *)
(* 0.05 is 750, 0.95 is 14250.                                             *)
(***************************************************************************)
EXTENDS Integers, FiniteSets, Sequences, TLC

VARIABLES
    widgets,     \* mostrar_predictor: the eleven input widgets' values
    resultado,   \* mostrar_predictor: what the button's run displayed
    tabla,       \* the DataFrame procesar_datos works on
    procesada,   \* whether procesar_datos has returned tabla
    archivo,     \* linelist_case_data.xlsx: unreadable, or the table it holds
    cache,       \* st.cache_data's entry for cargar_datos
    lecturas,    \* calls of pd.read_excel so far
    base,        \* main: the dataset cargar_datos returned to the last run
    app_mode,    \* main: the module the sidebar selects
    vista        \* main: what the selected module's view built

vars == <<widgets, resultado, tabla, procesada, archivo, cache, lecturas, base, app_mode, vista>>

predictorVars == <<widgets, resultado>>
normalizerVars == <<tabla, procesada>>
appVars == <<archivo, cache, lecturas, base, app_mode, vista>>

(***************************************************************************)
(* Bounds of the model.                                                    *)
(***************************************************************************)
\* Largest error, in thousandths of a point, that the float additions of
\* calcular_score_riesgo may have accumulated before round(score, 2).
FloatErr == 1

\* In how many widgets an input of the predictor may differ from a profile.
MaxCambios == 2

(***************************************************************************)
(* Risk scorer: calcular_score_riesgo                                      *)
(***************************************************************************)
EdadPuntos(edad) ==
    IF edad >= 60 THEN 3000
    ELSE IF edad >= 40 THEN 2000
    ELSE IF edad >= 18 THEN 1000
    ELSE 0

CtBloodPuntos(ct_blood) ==
    IF ct_blood < 200 THEN 2500
    ELSE IF ct_blood < 220 THEN 1500
    ELSE IF ct_blood < 240 THEN 500
    ELSE 0

\* Variant: the three BMI tests as independent if statements, so that a BMI
\* above 35 also collects the increment of the band above 30.
BmiPuntosSinElif(bmi) ==
    (IF bmi > 350 THEN 2000 ELSE 0) + (IF bmi > 300 THEN 1000 ELSE 0)
    + (IF bmi < 185 THEN 1000 ELSE 0)

BmiPuntos(bmi) ==
    IF bmi > 350 THEN 2000
    ELSE IF bmi > 300 THEN 1000
    ELSE IF bmi < 185 THEN 1000
    ELSE 0

GeneroPuntos(genero) ==
    IF genero = "Masculino" THEN 500 ELSE 0

\* Variant: the increments of the two upper temperature bands exchanged.
TemperaturaPuntosCruzados(temperatura) ==
    IF temperatura >= 385 THEN 1500
    ELSE IF temperatura >= 380 THEN 2000
    ELSE IF temperatura >= 375 THEN 1000
    ELSE 0

TemperaturaPuntos(temperatura) ==
    IF temperatura >= 385 THEN 2000
    ELSE IF temperatura >= 380 THEN 1500
    ELSE IF temperatura >= 375 THEN 1000
    ELSE 0

TosPuntos(tos) ==
    IF tos = "Severa" THEN 1500
    ELSE IF tos = "Moderada" THEN 1000
    ELSE IF tos = "Leve" THEN 500
    ELSE 0

EscalofriosPuntos(escalofrios) ==
    IF escalofrios = "Si" THEN 800 ELSE 0

DoloresPuntos(dolores) ==
    IF dolores = "Severos" THEN 1200
    ELSE IF dolores = "Moderados" THEN 800
    ELSE IF dolores = "Leves" THEN 400
    ELSE 0

VomitosPuntos(vomitos) ==
    IF vomitos = "Si" THEN 700 ELSE 0

DificultadPuntos(dificultad_respiratoria) ==
    IF dificultad_respiratoria = "Severa" THEN 2500
    ELSE IF dificultad_respiratoria = "Moderada" THEN 1500
    ELSE IF dificultad_respiratoria = "Leve" THEN 800
    ELSE 0

SaturacionPuntos(saturacion_oxigeno) ==
    IF saturacion_oxigeno < 900 THEN 3000
    ELSE IF saturacion_oxigeno < 930 THEN 2000
    ELSE IF saturacion_oxigeno < 950 THEN 1000
    ELSE 0

\* The value of score before the return statement, float error aside.
SumaFactores(w) ==
    EdadPuntos(w.edad) + CtBloodPuntos(w.ct_blood) + BmiPuntos(w.bmi)
    + GeneroPuntos(w.genero) + TemperaturaPuntos(w.temperatura)
    + TosPuntos(w.tos) + EscalofriosPuntos(w.escalofrios)
    + DoloresPuntos(w.dolores) + VomitosPuntos(w.vomitos)
    + DificultadPuntos(w.dificultad_respiratoria)
    + SaturacionPuntos(w.saturacion_oxigeno)

\* Python's round(x, 2) on thousandths: to the nearest multiple of 10, a tie
\* to the even one.
Round2(x) ==
    LET q == x \div 10
        r == x % 10
    IN  IF r < 5 THEN q * 10
        ELSE IF r > 5 THEN (q + 1) * 10
        ELSE IF q % 2 = 0 THEN q * 10
        ELSE (q + 1) * 10

\* Variant: the score returned without round(score, 2).
calcular_score_riesgo_sin_round(w, err) == SumaFactores(w) + err

\* err is the error the float additions left in score.
calcular_score_riesgo(w, err) == Round2(SumaFactores(w) + err)

(***************************************************************************)
(* mostrar_predictor                                                       *)
(***************************************************************************)
Min(a, b) == IF a < b THEN a ELSE b
Max(a, b) == IF a > b THEN a ELSE b

\* Variant: min and max exchanged.
ProbabilidadInvertida(score) == Max(14250, Min(750, score))

\* probabilidad = min(0.95, max(0.05, score / 15)), in units of 1/15000.
Probabilidad(score) == Min(14250, Max(750, score))

\* Variant: the first threshold tested with > instead of >=.
RiesgoEstricto(score) ==
    IF score > 10000 THEN
        [categoria |-> "ALTO RIESGO", color |-> "red",
         recomendacion |-> "URGENCIA MEDICA INMEDIATA - POSIBLE INGRESO A UCI"]
    ELSE IF score >= 7000 THEN
        [categoria |-> "RIESGO MODERADO-ALTO", color |-> "orange",
         recomendacion |-> "HOSPITALIZACION RECOMENDADA - MONITORIZACION CONTINUA"]
    ELSE IF score >= 4000 THEN
        [categoria |-> "RIESGO MODERADO", color |-> "yellow",
         recomendacion |-> "OBSERVACION HOSPITALARIA - EVALUACION PERIODICA"]
    ELSE
        [categoria |-> "BAJO RIESGO", color |-> "green",
         recomendacion |-> "SEGUIMIENTO AMBULATORIO - CONTROL DOMICILIARIO"]

\* The category, colour and recommendation chosen from the score.
Riesgo(score) ==
    IF score >= 10000 THEN
        [categoria |-> "ALTO RIESGO", color |-> "red",
         recomendacion |-> "URGENCIA MEDICA INMEDIATA - POSIBLE INGRESO A UCI"]
    ELSE IF score >= 7000 THEN
        [categoria |-> "RIESGO MODERADO-ALTO", color |-> "orange",
         recomendacion |-> "HOSPITALIZACION RECOMENDADA - MONITORIZACION CONTINUA"]
    ELSE IF score >= 4000 THEN
        [categoria |-> "RIESGO MODERADO", color |-> "yellow",
         recomendacion |-> "OBSERVACION HOSPITALARIA - EVALUACION PERIODICA"]
    ELSE
        [categoria |-> "BAJO RIESGO", color |-> "green",
         recomendacion |-> "SEGUIMIENTO AMBULATORIO - CONTROL DOMICILIARIO"]

(***************************************************************************)
(* Inputs of the predictor.  A slider's domain is sampled on both sides of  *)
(* every threshold of the scorer; the inputs explored are the profiles      *)
(* below and everything within MaxCambios widget changes of one.           *)
(***************************************************************************)
EdadValores == {17, 18, 39, 40, 59, 60}
CtBloodValores == {199, 200, 219, 220, 239, 240}
BmiValores == {184, 185, 300, 301, 350, 351}
TemperaturaValores == {374, 375, 379, 380, 384, 385}
SaturacionValores == {899, 900, 929, 930, 949, 950}
GeneroOpciones == {"Masculino", "Femenino"}
TosOpciones == {"Ninguna", "Leve", "Moderada", "Severa"}
SiNo == {"No", "Si"}
DoloresOpciones == {"Ninguno", "Leves", "Moderados", "Severos"}
DificultadOpciones == {"Ninguna", "Leve", "Moderada", "Severa"}

Campos ==
    {"edad", "genero", "bmi", "ct_blood", "saturacion_oxigeno", "temperatura",
     "tos", "escalofrios", "dolores", "vomitos", "dificultad_respiratoria"}

Opciones(campo) ==
    CASE campo = "edad" -> EdadValores
      [] campo = "genero" -> GeneroOpciones
      [] campo = "bmi" -> BmiValores
      [] campo = "ct_blood" -> CtBloodValores
      [] campo = "saturacion_oxigeno" -> SaturacionValores
      [] campo = "temperatura" -> TemperaturaValores
      [] campo = "tos" -> TosOpciones
      [] campo = "escalofrios" -> SiNo
      [] campo = "dolores" -> DoloresOpciones
      [] campo = "vomitos" -> SiNo
      [] campo = "dificultad_respiratoria" -> DificultadOpciones

\* The widgets as the page first renders them: each slider's default, each
\* selectbox's and radio's first option.
PorDefecto ==
    [edad |-> 45, genero |-> "Masculino", bmi |-> 250, ct_blood |-> 220,
     saturacion_oxigeno |-> 960, temperatura |-> 370, tos |-> "Ninguna",
     escalofrios |-> "No", dolores |-> "Ninguno", vomitos |-> "No",
     dificultad_respiratoria |-> "Ninguna"]

\* Every factor in its lowest band.
EjemploBajo ==
    [edad |-> 10, genero |-> "Femenino", bmi |-> 220, ct_blood |-> 250,
     saturacion_oxigeno |-> 970, temperatura |-> 365, tos |-> "Ninguna",
     escalofrios |-> "No", dolores |-> "Ninguno", vomitos |-> "No",
     dificultad_respiratoria |-> "Ninguna"]

\* Every factor in its highest band.
EjemploAlto ==
    [edad |-> 65, genero |-> "Masculino", bmi |-> 360, ct_blood |-> 190,
     saturacion_oxigeno |-> 880, temperatura |-> 390, tos |-> "Severa",
     escalofrios |-> "Si", dolores |-> "Severos", vomitos |-> "Si",
     dificultad_respiratoria |-> "Severa"]

PerfilLeve ==
    [edad |-> 30, genero |-> "Femenino", bmi |-> 320, ct_blood |-> 230,
     saturacion_oxigeno |-> 940, temperatura |-> 377, tos |-> "Leve",
     escalofrios |-> "No", dolores |-> "Leves", vomitos |-> "No",
     dificultad_respiratoria |-> "Leve"]

PerfilModerado ==
    [edad |-> 50, genero |-> "Masculino", bmi |-> 320, ct_blood |-> 210,
     saturacion_oxigeno |-> 910, temperatura |-> 382, tos |-> "Moderada",
     escalofrios |-> "Si", dolores |-> "Moderados", vomitos |-> "No",
     dificultad_respiratoria |-> "Moderada"]

\* The sliders of edad, bmi, ct_blood and saturacion_oxigeno at an end.
PerfilGrave ==
    [edad |-> 100, genero |-> "Femenino", bmi |-> 500, ct_blood |-> 160,
     saturacion_oxigeno |-> 1000, temperatura |-> 376, tos |-> "Moderada",
     escalofrios |-> "No", dolores |-> "Moderados", vomitos |-> "No",
     dificultad_respiratoria |-> "Severa"]

Perfiles ==
    {PorDefecto, EjemploBajo, EjemploAlto, PerfilLeve, PerfilModerado, PerfilGrave}

\* What widget c may hold in an input that differs from profile p in the
\* widgets of C at most.
Valores(p, C, c) == IF c \in C THEN Opciones(c) ELSE {p[c]}

\* The inputs that differ from profile p in the widgets of C at most.
Variantes(p, C) ==
    [edad : Valores(p, C, "edad"), genero : Valores(p, C, "genero"),
     bmi : Valores(p, C, "bmi"), ct_blood : Valores(p, C, "ct_blood"),
     saturacion_oxigeno : Valores(p, C, "saturacion_oxigeno"),
     temperatura : Valores(p, C, "temperatura"), tos : Valores(p, C, "tos"),
     escalofrios : Valores(p, C, "escalofrios"),
     dolores : Valores(p, C, "dolores"), vomitos : Valores(p, C, "vomitos"),
     dificultad_respiratoria : Valores(p, C, "dificultad_respiratoria")]

Cambiados == {C \in SUBSET Campos : Cardinality(C) <= MaxCambios}

SinResultado ==
    [mostrado |-> FALSE, score |-> 0, probabilidad |-> 0,
     categoria |-> "", color |-> "", recomendacion |-> ""]

\* The run of mostrar_predictor in which st.button returns True.
CalcularRiesgo ==
    /\ ~resultado.mostrado
    /\ \E err \in -FloatErr..FloatErr :
        LET score == calcular_score_riesgo(widgets, err)
            r == Riesgo(score)
        IN  resultado' =
                [mostrado |-> TRUE, score |-> score,
                 probabilidad |-> Probabilidad(score),
                 categoria |-> r.categoria, color |-> r.color,
                 recomendacion |-> r.recomendacion]
    /\ UNCHANGED <<widgets, normalizerVars, appVars>>

InitPredictor ==
    /\ \E p \in Perfiles : \E C \in Cambiados : widgets \in Variantes(p, C)
    /\ resultado = SinResultado
    /\ tabla = 0 /\ procesada = FALSE
    /\ archivo = 0 /\ cache = 0 /\ lecturas = 0 /\ base = 0 /\ app_mode = ""
    /\ vista = 0

NextPredictor == CalcularRiesgo

SpecPredictor == InitPredictor /\ [][NextPredictor]_vars

(***************************************************************************)
(* Data normalizer: procesar_datos, crear_datos_ejemplo                    *)
(*                                                                         *)
(* A DataFrame is held as its length n and one row, fila, which stands for *)
(* any row of the table: every statement of procesar_datos acts on a whole *)
(* column, row by row, and numpy draws each row's value on its own.  The   *)
(* columns of the table are DOMAIN fila.  bmi_calculado and ct_blood are   *)
(* in tenths.                                                              *)
(***************************************************************************)
\* The rows of the table a file holds.
MaxFilas == 2

n_pacientes == 500

NaN == "NaN"

Columnas(df) == DOMAIN df.fila

\* base[col] = val
Asignar(df, col, val) == [df EXCEPT !.fila = (col :> val) @@ @]

\* numpy's draws, as the set of values a row may get; a numeric range is
\* sampled at its two ends.
choice(a) == a
randint(low, high) == {low, high - 1}
uniform(low, high) == {low * 10, high * 10 - 1}
exponential(scale) == {0, scale}

bins == <<0, 18, 40, 60, 100>>
labels == <<"0-17", "18-39", "40-59", "60+">>

\* pd.cut(x, bins=bins, labels=labels, right=False): the label of the bin
\* [bins[i], bins[i+1]) that holds x, and NaN when none does.
cut(x) ==
    LET dentro == {i \in 1..Len(labels) : bins[i] <= x /\ x < bins[i + 1]}
    IN  IF dentro = {} THEN NaN ELSE labels[CHOOSE i \in dentro : TRUE]

\* What each statement of procesar_datos may leave in its column of the row.
Mortalidad(df) ==
    IF "outcome" \in Columnas(df)
    THEN {IF df.fila.outcome = "Death" THEN 1 ELSE 0}
    ELSE choice({0, 1})

AgeYears(df) ==
    IF "age_years" \notin Columnas(df)
    THEN IF "age" \in Columnas(df) THEN {df.fila.age} ELSE randint(18, 80)
    ELSE {df.fila.age_years}

BmiCalculado(df) ==
    IF "bmi_calculado" \notin Columnas(df) THEN uniform(18, 35)
    ELSE {df.fila.bmi_calculado}

CtBlood(df) ==
    IF "ct_blood" \notin Columnas(df) THEN uniform(16, 26) ELSE {df.fila.ct_blood}

\* The body of the loop over sintomas.
Sintoma(df, sintoma) ==
    IF sintoma \notin Columnas(df) THEN choice({"yes", "no"}) ELSE {df.fila[sintoma]}

Gender(df) ==
    IF "gender" \notin Columnas(df) THEN choice({"m", "f"}) ELSE {df.fila.gender}

GrupoEdad(age_years) == cut(age_years)

Cluster(df) ==
    IF "cluster" \notin Columnas(df) THEN choice({0, 1, 2, 3}) ELSE {df.fila.cluster}

\* The tables procesar_datos(base) may return: base with the twelve columns
\* set, its other columns (outcome, age, paciente_id) as they were.
procesar_datos(df) ==
    {[df EXCEPT !.fila =
        [mortalidad |-> m, age_years |-> a, bmi_calculado |-> b, ct_blood |-> c,
         fever |-> s.fever, cough |-> s.cough, chills |-> s.chills,
         aches |-> s.aches, vomit |-> s.vomit, gender |-> g,
         grupo_edad |-> GrupoEdad(a), cluster |-> k] @@ @] :
        m \in Mortalidad(df), a \in AgeYears(df), b \in BmiCalculado(df),
        c \in CtBlood(df),
        s \in [fever : Sintoma(df, "fever"), cough : Sintoma(df, "cough"),
               chills : Sintoma(df, "chills"), aches : Sintoma(df, "aches"),
               vomit : Sintoma(df, "vomit")],
        g \in Gender(df), k \in Cluster(df)}

\* The DataFrame built from datos: n_pacientes rows, of which fila is any.
DatosEjemplo ==
    {[n |-> n_pacientes,
      fila |-> [paciente_id |-> id, age_years |-> a, gender |-> g,
                bmi_calculado |-> b, ct_blood |-> c, fever |-> s.fever,
                cough |-> s.cough, chills |-> s.chills, aches |-> s.aches,
                vomit |-> s.vomit, mortalidad |-> m]] :
        id \in {1, n_pacientes}, a \in randint(18, 80), g \in choice({"m", "f"}),
        b \in uniform(18, 35), c \in uniform(16, 26),
        s \in [fever : choice({"yes", "no"}), cough : choice({"yes", "no"}),
               chills : choice({"yes", "no"}), aches : choice({"yes", "no"}),
               vomit : choice({"yes", "no"})],
        m \in choice({0, 1})}

\* Variant: the example data returned as built, without procesar_datos.
crear_datos_ejemplo_sin_procesar == DatosEjemplo

\* The tables crear_datos_ejemplo() may return.
crear_datos_ejemplo == UNION {procesar_datos(b) : b \in DatosEjemplo}

(***************************************************************************)
(* The tables a file may hold.  Each column is absent ({}) or holds a      *)
(* value ({v}); the columns whose values procesar_datos never reads hold   *)
(* one value when present.                                                 *)
(***************************************************************************)
EdadesArchivo == {17, 18, 39, 40, 59, 60, 100}

ColumnasArchivo ==
    [outcome : {{}, {"Death"}, {"Recover"}},
     mortalidad : {{}, {0}, {1}},
     age_years : {{}} \cup {{a} : a \in EdadesArchivo},
     age : {{}, {100}},
     bmi_calculado : {{}, {180}},
     ct_blood : {{}, {160}},
     fever : {{}, {"yes"}}, cough : {{}, {"yes"}}, chills : {{}, {"yes"}},
     aches : {{}, {"yes"}}, vomit : {{}, {"yes"}},
     gender : {{}, {"m"}},
     cluster : {{}, {0}}]

\* The row that holds the columns present in r.
Fila(r) == [c \in {d \in DOMAIN r : r[d] # {}} |-> CHOOSE v \in r[c] : TRUE]

\* procesar_datos called on tabla; tabla then holds what it returned.
Procesar ==
    /\ tabla' \in procesar_datos(tabla)
    /\ procesada' = TRUE
    /\ UNCHANGED <<predictorVars, appVars>>

InitNormalizer ==
    /\ \E r \in ColumnasArchivo : tabla = [n |-> MaxFilas, fila |-> Fila(r)]
    /\ procesada = FALSE
    /\ widgets = PorDefecto /\ resultado = SinResultado
    /\ archivo = 0 /\ cache = 0 /\ lecturas = 0 /\ base = 0 /\ app_mode = ""
    /\ vista = 0

NextNormalizer == Procesar

SpecNormalizer == InitNormalizer /\ [][NextNormalizer]_vars

(***************************************************************************)
(* The application: cargar_datos under st.cache_data, and main             *)
(***************************************************************************)
NoLegible == [legible |-> FALSE]

\* Files for the application: unreadable, or a table with every column, with
\* an outcome and an age only, or with none of the columns the code knows.
FilaCompleta ==
    [outcome |-> "Death", mortalidad |-> 1, age_years |-> 60, age |-> 60,
     bmi_calculado |-> 180, ct_blood |-> 160, fever |-> "yes", cough |-> "yes",
     chills |-> "yes", aches |-> "yes", vomit |-> "yes", gender |-> "m",
     cluster |-> 0]
FilaParcial == [outcome |-> "Recover", age |-> 40]
FilaVacia == [c \in {} |-> 0]

Archivos ==
    {NoLegible} \cup
    {[legible |-> TRUE, tabla |-> [n |-> n, fila |-> f]] :
        n \in 1..MaxFilas, f \in {FilaCompleta, FilaParcial, FilaVacia}}

\* The body of cargar_datos: what it may return, with the notice it shows;
\* pd.read_excel raises when the file is not legible.
cargar_datos(a) ==
    IF a.legible
    THEN {[valor |-> t, aviso |-> "success"] : t \in procesar_datos(a.tabla)}
    ELSE {[valor |-> t, aviso |-> "error"] : t \in crear_datos_ejemplo}

CacheLleno(r) == [lleno |-> TRUE, valor |-> r.valor, aviso |-> r.aviso]

\* Variant: no memoization, the body runs on every call.
cache_data_sin_memo(c, a) ==
    {[cache |-> CacheLleno(r), llamadas |-> 1] : r \in cargar_datos(a)}

\* @st.cache_data on cargar_datos: a call returns the entry when there is
\* one, and otherwise runs the body and stores what it returned.  llamadas
\* counts the runs of the body.
cache_data(c, a) ==
    IF c.lleno THEN {[cache |-> c, llamadas |-> 0]}
    ELSE {[cache |-> CacheLleno(r), llamadas |-> 1] : r \in cargar_datos(a)}

Modulos ==
    {"Dashboard General", "Predictor de Riesgo", "Analisis de Supervivencia",
     "Segmentacion de Pacientes"}

\* mostrar_supervivencia works on a copy of the dataset, with two columns more.
mostrar_supervivencia(df) ==
    {[modulo |-> "Analisis de Supervivencia",
      base_supervivencia |->
        [df EXCEPT !.fila = [tiempo_supervivencia |-> t,
                             evento_muerte |-> df.fila.mortalidad] @@ @]] :
        t \in exponential(30)}

\* What the view of module m builds from the dataset; the other three views
\* only read it.
Vista(m, df) ==
    IF m = "Analisis de Supervivencia" THEN mostrar_supervivencia(df)
    ELSE {[modulo |-> m]}

\* One run of the script.  The first run renders the sidebar's default
\* module; a later run follows a click and may have another module selected.
main ==
    /\ \E m \in (IF cache.lleno THEN Modulos ELSE {app_mode}) :
       \E r \in cache_data(cache, archivo) :
            /\ cache' = r.cache
            /\ lecturas' = lecturas + r.llamadas
            /\ base' = r.cache.valor
            /\ app_mode' = m
            /\ vista' \in Vista(m, r.cache.valor)
    /\ UNCHANGED <<archivo, predictorVars, normalizerVars>>

InitApp ==
    /\ archivo \in Archivos
    /\ cache = [lleno |-> FALSE]
    /\ lecturas = 0
    /\ base = [n |-> 0, fila |-> FilaVacia]
    /\ app_mode = "Dashboard General"
    /\ vista = [modulo |-> ""]
    /\ widgets = PorDefecto /\ resultado = SinResultado
    /\ tabla = 0 /\ procesada = FALSE

NextApp == main

SpecApp == InitApp /\ [][NextApp]_vars

(***************************************************************************)
(* Properties of the risk scorer                                           *)
(***************************************************************************)
\* The rubric as the specification tabulates it: per factor, the bands in
\* descending severity, each a test on the input and an increment.
TablaEdad ==
    <<[op |-> ">=", lim |-> 60, pts |-> 3000], [op |-> ">=", lim |-> 40, pts |-> 2000],
      [op |-> ">=", lim |-> 18, pts |-> 1000]>>
TablaCtBlood ==
    <<[op |-> "<", lim |-> 200, pts |-> 2500], [op |-> "<", lim |-> 220, pts |-> 1500],
      [op |-> "<", lim |-> 240, pts |-> 500]>>
TablaBmi ==
    <<[op |-> ">", lim |-> 350, pts |-> 2000], [op |-> ">", lim |-> 300, pts |-> 1000],
      [op |-> "<", lim |-> 185, pts |-> 1000]>>
TablaGenero == <<[op |-> "=", lim |-> "Masculino", pts |-> 500]>>
TablaTemperatura ==
    <<[op |-> ">=", lim |-> 385, pts |-> 2000], [op |-> ">=", lim |-> 380, pts |-> 1500],
      [op |-> ">=", lim |-> 375, pts |-> 1000]>>
TablaTos ==
    <<[op |-> "=", lim |-> "Severa", pts |-> 1500], [op |-> "=", lim |-> "Moderada", pts |-> 1000],
      [op |-> "=", lim |-> "Leve", pts |-> 500]>>
TablaEscalofrios == <<[op |-> "=", lim |-> "Si", pts |-> 800]>>
TablaDolores ==
    <<[op |-> "=", lim |-> "Severos", pts |-> 1200], [op |-> "=", lim |-> "Moderados", pts |-> 800],
      [op |-> "=", lim |-> "Leves", pts |-> 400]>>
TablaVomitos == <<[op |-> "=", lim |-> "Si", pts |-> 700]>>
TablaDificultad ==
    <<[op |-> "=", lim |-> "Severa", pts |-> 2500], [op |-> "=", lim |-> "Moderada", pts |-> 1500],
      [op |-> "=", lim |-> "Leve", pts |-> 800]>>
TablaSaturacion ==
    <<[op |-> "<", lim |-> 900, pts |-> 3000], [op |-> "<", lim |-> 930, pts |-> 2000],
      [op |-> "<", lim |-> 950, pts |-> 1000]>>

Aplica(banda, x) ==
    CASE banda.op = ">=" -> x >= banda.lim
      [] banda.op = ">" -> x > banda.lim
      [] banda.op = "<" -> x < banda.lim
      [] banda.op = "=" -> x = banda.lim

\* The increment of the first (highest) band of the table that applies to x,
\* and 0 when none does.
RECURSIVE Incremento(_, _)
Incremento(bandas, x) ==
    IF bandas = <<>> THEN 0
    ELSE IF Aplica(Head(bandas), x) THEN Head(bandas).pts
    ELSE Incremento(Tail(bandas), x)

\* One increment per factor.
SumaDeTabla(w) ==
    Incremento(TablaEdad, w.edad) + Incremento(TablaCtBlood, w.ct_blood)
    + Incremento(TablaBmi, w.bmi) + Incremento(TablaGenero, w.genero)
    + Incremento(TablaTemperatura, w.temperatura) + Incremento(TablaTos, w.tos)
    + Incremento(TablaEscalofrios, w.escalofrios)
    + Incremento(TablaDolores, w.dolores) + Incremento(TablaVomitos, w.vomitos)
    + Incremento(TablaDificultad, w.dificultad_respiratoria)
    + Incremento(TablaSaturacion, w.saturacion_oxigeno)

\* Every factor in its highest band, and every factor in its lowest.
TodosMaximos(w) ==
    /\ w.edad >= 60 /\ w.ct_blood < 200 /\ w.bmi > 350 /\ w.genero = "Masculino"
    /\ w.temperatura >= 385 /\ w.tos = "Severa" /\ w.escalofrios = "Si"
    /\ w.dolores = "Severos" /\ w.vomitos = "Si"
    /\ w.dificultad_respiratoria = "Severa" /\ w.saturacion_oxigeno < 900
TodosMinimos(w) ==
    /\ w.edad < 18 /\ w.ct_blood >= 240 /\ w.bmi >= 185 /\ w.bmi <= 300
    /\ w.genero = "Femenino" /\ w.temperatura < 375 /\ w.tos = "Ninguna"
    /\ w.escalofrios = "No" /\ w.dolores = "Ninguno" /\ w.vomitos = "No"
    /\ w.dificultad_respiratoria = "Ninguna" /\ w.saturacion_oxigeno >= 950

\* C1 as stated: the score is the sum of one table increment per factor, the
\* highest applicable band only; the all-highest input scores 23.2 and the
\* all-lowest 0.0.
C1_SumaDeTabla_Original ==
    resultado.mostrado =>
        /\ resultado.score = SumaDeTabla(widgets)
        /\ TodosMaximos(widgets) => resultado.score = 23200
        /\ TodosMinimos(widgets) => resultado.score = 0

\* C1 amended: the score is the sum of one table increment per factor, the
\* highest applicable band only; the all-highest input scores 19.7 (the sum
\* of the table's highest increments) and the all-lowest 0.0.
C1_SumaDeTabla ==
    resultado.mostrado =>
        /\ resultado.score = SumaDeTabla(widgets)
        /\ TodosMaximos(widgets) => resultado.score = 19700
        /\ TodosMinimos(widgets) => resultado.score = 0

\* The all-highest example has been scored.
C1_Witness ==
    /\ resultado.mostrado
    /\ widgets = EjemploAlto
    /\ resultado.score = 19700

\* C2: the category is chosen by inclusive lower bounds, highest first (10, 7
\* and 4 points); 10.00 is high, 9.99 and 7.00 moderate-high, 6.99 and 4.00
\* moderate, 3.99 low; each category comes with its own recommendation.
C2_Categoria ==
    /\ resultado.mostrado =>
        /\ resultado.score >= 10000 =>
            /\ resultado.categoria = "ALTO RIESGO"
            /\ resultado.recomendacion = "URGENCIA MEDICA INMEDIATA - POSIBLE INGRESO A UCI"
        /\ (resultado.score >= 7000 /\ resultado.score < 10000) =>
            /\ resultado.categoria = "RIESGO MODERADO-ALTO"
            /\ resultado.recomendacion = "HOSPITALIZACION RECOMENDADA - MONITORIZACION CONTINUA"
        /\ (resultado.score >= 4000 /\ resultado.score < 7000) =>
            /\ resultado.categoria = "RIESGO MODERADO"
            /\ resultado.recomendacion = "OBSERVACION HOSPITALARIA - EVALUACION PERIODICA"
        /\ resultado.score < 4000 =>
            /\ resultado.categoria = "BAJO RIESGO"
            /\ resultado.recomendacion = "SEGUIMIENTO AMBULATORIO - CONTROL DOMICILIARIO"
    /\ Riesgo(10000).categoria = "ALTO RIESGO"
    /\ Riesgo(9990).categoria = "RIESGO MODERADO-ALTO"
    /\ Riesgo(7000).categoria = "RIESGO MODERADO-ALTO"
    /\ Riesgo(6990).categoria = "RIESGO MODERADO"
    /\ Riesgo(4000).categoria = "RIESGO MODERADO"
    /\ Riesgo(3990).categoria = "BAJO RIESGO"

\* An input scoring exactly 10.0 has been put in the high category.
C2_Witness ==
    /\ resultado.mostrado
    /\ resultado.score = 10000
    /\ resultado.categoria = "ALTO RIESGO"

\* C3: the probability is clamp(score / 15, 0.05, 0.95): within [0.05, 0.95],
\* 0.05 up to a score of 0.75 and 0.95 from a score of 14.25.
C3_Probabilidad ==
    resultado.mostrado =>
        /\ resultado.probabilidad >= 750 /\ resultado.probabilidad <= 14250
        /\ resultado.score <= 750 => resultado.probabilidad = 750
        /\ resultado.score >= 14250 => resultado.probabilidad = 14250
        /\ (resultado.score > 750 /\ resultado.score < 14250) =>
            resultado.probabilidad = resultado.score

\* A score above 14.25 has been shown with the probability 0.95.
C3_Witness ==
    /\ resultado.mostrado
    /\ resultado.score > 14250
    /\ resultado.probabilidad = 14250

Nivel(opcion) ==
    CASE opcion \in {"Ninguna", "Ninguno", "No"} -> 0
      [] opcion \in {"Leve", "Leves", "Si"} -> 1
      [] opcion \in {"Moderada", "Moderados"} -> 2
      [] opcion \in {"Severa", "Severos"} -> 3

\* Whether value v of widget c is more severe than value u, as C4 orders them.
MasSevero(c, v, u) ==
    CASE c \in {"edad", "bmi", "temperatura"} -> v > u
      [] c \in {"ct_blood", "saturacion_oxigeno"} -> v < u
      [] c \in {"tos", "escalofrios", "dolores", "vomitos", "dificultad_respiratoria"} ->
            Nivel(v) > Nivel(u)
      [] OTHER -> FALSE

\* The same, with BMI ordered only from 18.5 upwards.
MasSeveroDesde185(c, v, u) ==
    IF c = "bmi" THEN u >= 185 /\ v > u ELSE MasSevero(c, v, u)

\* C4 as stated: moving one factor to a more severe value (older, lower
\* blood-cell count, higher BMI, higher temperature, stronger symptom, lower
\* saturation), the other ten held, never lowers the score.
C4_Monotono_Original ==
    resultado.mostrado =>
        \A c \in Campos : \A v \in Opciones(c) :
            MasSevero(c, v, widgets[c]) =>
                \A err \in -FloatErr..FloatErr :
                    calcular_score_riesgo([widgets EXCEPT ![c] = v], err) >= resultado.score

\* C4 amended: the same for every factor but BMI, and for BMI only when the
\* BMI moved from is 18.5 or more (a BMI below 18.5 scores 1.0, one of 18.5
\* to 30 scores 0).
C4_Monotono ==
    resultado.mostrado =>
        \A c \in Campos : \A v \in Opciones(c) :
            MasSeveroDesde185(c, v, widgets[c]) =>
                \A err \in -FloatErr..FloatErr :
                    calcular_score_riesgo([widgets EXCEPT ![c] = v], err) >= resultado.score

\* A scored input whose temperature, raised from 37.4 to 38.5, scores 2.0 more.
C4_Witness ==
    /\ resultado.mostrado
    /\ widgets.temperatura = 374
    /\ calcular_score_riesgo([widgets EXCEPT !.temperatura = 385], 0) = resultado.score + 2000

\* C10: the score is at least 0, at most 23.2 and a multiple of 0.1; the
\* rounding leaves the sum of the factors as it is, and no score lies strictly
\* between 9.9 and 10.0, 6.9 and 7.0 or 3.9 and 4.0.
C10_Decimas ==
    resultado.mostrado =>
        /\ resultado.score >= 0 /\ resultado.score <= 23200
        /\ resultado.score % 100 = 0
        /\ resultado.score = SumaFactores(widgets)
        /\ ~(resultado.score > 9900 /\ resultado.score < 10000)
        /\ ~(resultado.score > 6900 /\ resultado.score < 7000)
        /\ ~(resultado.score > 3900 /\ resultado.score < 4000)

\* A score of exactly 9.9 has been shown.
C10_Witness ==
    /\ resultado.mostrado
    /\ resultado.score = 9900
    /\ resultado.categoria = "RIESGO MODERADO-ALTO"

(***************************************************************************)
(* Properties of the data normalizer and of the application                *)
(***************************************************************************)
Canonicas ==
    {"mortalidad", "age_years", "bmi_calculado", "ct_blood", "fever", "cough",
     "chills", "aches", "vomit", "gender", "grupo_edad", "cluster"}

\* The half-open range that holds the age, as the specification lists them.
Rango(edad) ==
    IF edad < 18 THEN "0-17"
    ELSE IF edad < 40 THEN "18-39"
    ELSE IF edad < 60 THEN "40-59"
    ELSE "60+"

\* C5: procesar_datos overwrites no column its input already has, except the
\* age group, which it derives again from the unchanged age.
C5_NoSobrescribe ==
    [][procesada' =>
        /\ \A c \in Columnas(tabla) \ {"grupo_edad"} :
            tabla'.fila[c] = tabla.fila[c]
        /\ "age_years" \in Columnas(tabla) =>
            tabla'.fila.grupo_edad = cut(tabla.fila.age_years)]_vars

\* C6: after procesar_datos every canonical field of every record is there
\* and none is null, whatever columns and ages the input had.
C6_Completa ==
    procesada =>
        /\ Canonicas \subseteq Columnas(tabla)
        /\ tabla.fila.grupo_edad # NaN

\* C7: the age group is the half-open range that holds the age: [0,18),
\* [18,40), [40,60), and 60 or more.
C7_GrupoEdad ==
    /\ procesada => tabla.fila.grupo_edad = Rango(tabla.fila.age_years)
    /\ cut(17) = "0-17" /\ cut(18) = "18-39" /\ cut(39) = "18-39"
    /\ cut(40) = "40-59" /\ cut(59) = "40-59" /\ cut(60) = "60+"

\* C8: when the file cannot be read, cargar_datos returns the example data,
\* 500 records with every canonical field set and none null; read or not,
\* main has a dataset after its first run.
C8_Respaldo ==
    cache.lleno =>
        /\ base = cache.valor
        /\ base.n >= 1
        /\ Canonicas \subseteq Columnas(base)
        /\ ~archivo.legible =>
            /\ cache.aviso = "error"
            /\ base.n = n_pacientes
            /\ base.fila.grupo_edad # NaN

\* The file was unreadable and main holds the 500 example records.
C8_Witness ==
    /\ ~archivo.legible
    /\ cache.lleno
    /\ base.n = 500
    /\ "cluster" \in Columnas(base)

\* C9: the body of cargar_datos runs at most once; once the dataset is
\* memoized no run and no view changes it, and every run gets that dataset.
C9_UnaLectura ==
    /\ [](lecturas <= 1)
    /\ [][cache.lleno => (cache' = cache /\ base' = cache.valor /\ lecturas' = lecturas)]_vars

\* A later run, on another module, has been served the memoized dataset.
C9_Witness ==
    /\ cache.lleno
    /\ lecturas = 1
    /\ app_mode = "Analisis de Supervivencia"
    /\ base = cache.valor
    /\ "tiempo_supervivencia" \in Columnas(vista.base_supervivencia)
    /\ "tiempo_supervivencia" \notin Columnas(cache.valor)

====
